---- MODULE Spec2Model ----
(***************************************************************************)
(* Model of examples/rust-dlmm-enhanced.rs: the EnhancedSarosDLMM client,  *)
(* its three public operations (get_quote, execute_swap, get_pool_stats)   *)
(* and the private validate_swap_params helper.                            *)
(*                                                                         *)
(* f64 values are modelled as exact fractions num/den with den > 0, plus   *)
(* the one unordered value NaN (written 0/0).  Every comparison with NaN   *)
(* is false and every arithmetic operation on NaN gives NaN, as in IEEE    *)
(* 754.  Rounding of finite values is not modelled.                        *)
(*                                                                         *)
(* Result<T, Box<dyn Error>> is a record [tag, val, msg]; Option<String>   *)
(* is a set with at most one element.                                      *)
(***************************************************************************)
EXTENDS Integers, Sequences, FiniteSets, TLC

\* ------------------------------------------------------------------ bounds
\* amounts range over n/2 for n in -1 .. MaxAmountNum, and NaN
MaxAmountNum == 2

\* --------------------------------------------------------------- f64 model
RECURSIVE Gcd(_, _)
Gcd(a, b) == IF b = 0 THEN a ELSE Gcd(b, a % b)

Abs(n) == IF n < 0 THEN -n ELSE n

NaN == [num |-> 0, den |-> 0]

\* the f64 with value n/d (d # 0), in lowest terms with a positive denominator
Rat(n, d) ==
    LET g == Gcd(Abs(n), Abs(d))
        s == IF d < 0 THEN -1 ELSE 1
    IN  [num |-> (s * n) \div g, den |-> (s * d) \div g]

IsNaN(x) == x.den = 0

\* a * b on f64
FMul(a, b) ==
    IF IsNaN(a) \/ IsNaN(b) THEN NaN ELSE Rat(a.num * b.num, a.den * b.den)

\* a / b on f64, for a finite non-zero divisor b
FDiv(a, b) ==
    IF IsNaN(a) \/ IsNaN(b) THEN NaN ELSE Rat(a.num * b.den, a.den * b.num)

\* a <= b on f64: false when either side is NaN
FLe(a, b) ==
    /\ ~IsNaN(a)
    /\ ~IsNaN(b)
    /\ a.num * b.den <= b.num * a.den

\* a > b on f64: false when either side is NaN
FGt(a, b) ==
    /\ ~IsNaN(a)
    /\ ~IsNaN(b)
    /\ a.num * b.den > b.num * a.den

Zero == Rat(0, 1)

\* ------------------------------------------------------------ Result/Option
NoVal == "-"
Ok(v) == [tag |-> "Ok", val |-> v, msg |-> NoVal]
Err(m) == [tag |-> "Err", val |-> NoVal, msg |-> m]
Pending == [tag |-> "Pending", val |-> NoVal, msg |-> NoVal]

Some(s) == {s}
None == {}

\* ------------------------------------------------------------- domain types
DlmmConfig(network, slippage) == [network |-> network, slippage |-> slippage]

SwapParams(input_token, output_token, amount, wallet_public_key) ==
    [input_token |-> input_token, output_token |-> output_token,
     amount |-> amount, wallet_public_key |-> wallet_public_key]

SwapResult(success, signature, error) ==
    [success |-> success, signature |-> signature, error |-> error]

QuoteResult(input_amount, expected_output, price_impact, fee) ==
    [input_amount |-> input_amount, expected_output |-> expected_output,
     price_impact |-> price_impact, fee |-> fee]

\* ------------------------------------------------------------------ inputs
Configs == {DlmmConfig("mainnet-beta", Rat(1, 2)), DlmmConfig("devnet", Rat(1, 2))}
Tokens == {"", "SOL", "USDC"}
Amounts == {Rat(n, 2) : n \in -1 .. MaxAmountNum} \cup {NaN}
Wallets == {"REPLACE_WITH_YOUR_PUBLIC_KEY", "test_wallet"}
\* the params of the direct get_quote and execute_swap calls
ParamsSet ==
    {SwapParams(i, o, a, w) : i \in Tokens, o \in Tokens, a \in Amounts, w \in Wallets}
\* the params of the interleaved execute_swap calls: one wallet
SwapInputs == {p \in ParamsSet : p.wallet_public_key = "test_wallet"}
PairAddresses == {"", "test_pair"}
\* two execute_swap calls may be in flight on the one client at the same time
Calls == {"a", "b"}

\* --------------------------------------------------------------- operations
\* EnhancedSarosDLMM::new
New(cfg) == Ok([config |-> cfg])

\* validation that compares the tokens before it looks at the amount
ValidateSwapParamsReordered(self, params) ==
    IF params.input_token = "" \/ params.output_token = ""
    THEN Err("Input and output tokens are required")
    ELSE IF params.input_token = params.output_token
    THEN Err("Input and output tokens must be different")
    ELSE IF FLe(params.amount, Zero)
    THEN Err("Amount must be positive")
    ELSE Ok("()")

\* EnhancedSarosDLMM::validate_swap_params
ValidateSwapParams(self, params) ==
    IF params.input_token = "" \/ params.output_token = ""
    THEN Err("Input and output tokens are required")
    ELSE IF FLe(params.amount, Zero)
    THEN Err("Amount must be positive")
    ELSE IF params.input_token = params.output_token
    THEN Err("Input and output tokens must be different")
    ELSE Ok("()")

\* get_quote with the fee rate mistyped as 0.03
GetQuoteWrongFee(self, params) ==
    LET expected_output == FMul(params.amount, Rat(100, 1))
        price_impact == FMul(FDiv(params.amount, Rat(1000000, 1)), Rat(5, 100))
        fee == FMul(params.amount, Rat(3, 100))
    IN  Ok(QuoteResult(params.amount, expected_output, price_impact, fee))

\* EnhancedSarosDLMM::get_quote
GetQuote(self, params) ==
    LET expected_output == FMul(params.amount, Rat(100, 1))
        price_impact == FMul(FDiv(params.amount, Rat(1000000, 1)), Rat(5, 100))
        fee == FMul(params.amount, Rat(3, 1000))
    IN  Ok(QuoteResult(params.amount, expected_output, price_impact, fee))

\* the signature literal of the simulated submission
SimulatedSignature == "simulated-transaction-signature"

\* a SwapResult that carries an error next to its signature
BuildSwapResultBoth(signature) == SwapResult(TRUE, signature, Some(""))

\* the SwapResult execute_swap builds once validation and quote have passed
BuildSwapResult(signature) == SwapResult(TRUE, signature, None)

\* EnhancedSarosDLMM::execute_swap, run from call to return without interleaving
ExecuteSwap(self, params) ==
    LET v == ValidateSwapParams(self, params)
        q == GetQuote(self, params)
    IN  IF v.tag = "Err" THEN Err(v.msg)
        ELSE IF q.tag = "Err" THEN Err(q.msg)
        ELSE Ok(BuildSwapResult(Some(SimulatedSignature)))

\* EnhancedSarosDLMM::get_pool_stats
GetPoolStats(self, pair_address) == Ok(Rat(2000000, 1))

\* -------------------------------------------------------------------- state
VARIABLES
    client,     \* the EnhancedSarosDLMM value: [config |-> DlmmConfig]
    pc,         \* per execute_swap call: "idle", "validate", "quote", "submit", "report", "done"
    params,     \* per call: the SwapParams it was called with
    vres,       \* per call: what validate_swap_params returned
    quote,      \* per call: the local _quote
    sig,        \* per call: the signature of the simulated submission
    outcome,    \* per call: what execute_swap returned (Pending until it returns)
    trace,      \* per call: the steps performed so far, in order
    returns,    \* per call: how many times the call has returned
    overlapped, \* per call: another call took a step while this one was in flight
    lastOp,     \* the most recent direct operation: [op, params, result]
    memo,       \* an earlier direct get_quote call, kept for comparison
    between     \* another operation has run since memo was taken

swapVars == <<pc, params, vres, quote, sig, outcome, trace, returns, overlapped>>
opVars == <<lastOp, memo, between>>
vars == <<client, pc, params, vres, quote, sig, outcome, trace, returns,
          overlapped, lastOp, memo, between>>

NoParams == SwapParams("", "", NaN, "")
NoQuote == QuoteResult(NaN, NaN, NaN, NaN)
\* params is recorded for get_quote only, where two calls are compared
OpRecord(op, ps, result) == [op |-> op, params |-> ps, result |-> result]
NoCall == OpRecord("none", NoParams, Pending)

Init ==
    /\ \E cfg \in Configs : client = New(cfg).val
    /\ pc = [c \in Calls |-> "idle"]
    /\ params = [c \in Calls |-> NoParams]
    /\ vres = [c \in Calls |-> Pending]
    /\ quote = [c \in Calls |-> NoQuote]
    /\ sig = [c \in Calls |-> None]
    /\ outcome = [c \in Calls |-> Pending]
    /\ trace = [c \in Calls |-> <<>>]
    /\ returns = [c \in Calls |-> 0]
    /\ overlapped = [c \in Calls |-> FALSE]
    /\ lastOp = NoCall
    /\ memo = NoCall
    /\ between = FALSE

\* ------------------------------------------- execute_swap, one step at a time
InFlight(c) == pc[c] \notin {"idle", "done"}

\* call c takes a step: every other call in flight has now been overlapped
Overlap(c) == [d \in Calls |-> IF d # c /\ InFlight(d) THEN TRUE ELSE overlapped[d]]

\* a caller invokes execute_swap(&self, params)
SwapCall(c, p) ==
    /\ pc[c] \in {"idle", "done"}
    /\ pc' = [pc EXCEPT ![c] = "validate"]
    /\ params' = [params EXCEPT ![c] = p]
    /\ vres' = [vres EXCEPT ![c] = Pending]
    /\ quote' = [quote EXCEPT ![c] = NoQuote]
    /\ sig' = [sig EXCEPT ![c] = None]
    /\ outcome' = [outcome EXCEPT ![c] = Pending]
    /\ trace' = [trace EXCEPT ![c] = <<>>]
    /\ returns' = [returns EXCEPT ![c] = 0]
    /\ overlapped' = [overlapped EXCEPT ![c] = FALSE]
    /\ UNCHANGED <<client, opVars>>

\* validation whose error is dropped instead of returned (the ? left out)
SwapValidateNoReturn(c) ==
    /\ pc[c] = "validate"
    /\ vres' = [vres EXCEPT ![c] = ValidateSwapParams(client, params[c])]
    /\ pc' = [pc EXCEPT ![c] = "quote"]
    /\ trace' = [trace EXCEPT ![c] = Append(@, "Validate")]
    /\ overlapped' = Overlap(c)
    /\ UNCHANGED <<client, params, quote, sig, outcome, returns, opVars>>

\* self.validate_swap_params(params)?
SwapValidate(c) ==
    /\ pc[c] = "validate"
    /\ LET v == ValidateSwapParams(client, params[c])
       IN  /\ vres' = [vres EXCEPT ![c] = v]
           /\ pc' = [pc EXCEPT ![c] = IF v.tag = "Err" THEN "done" ELSE "quote"]
           /\ outcome' = [outcome EXCEPT ![c] = IF v.tag = "Err" THEN Err(v.msg) ELSE @]
           /\ returns' = [returns EXCEPT ![c] = IF v.tag = "Err" THEN @ + 1 ELSE @]
    /\ trace' = [trace EXCEPT ![c] = Append(@, "Validate")]
    /\ overlapped' = Overlap(c)
    /\ UNCHANGED <<client, params, quote, sig, opVars>>

\* let _quote = self.get_quote(params).await?
SwapQuote(c) ==
    /\ pc[c] = "quote"
    /\ LET q == GetQuote(client, params[c])
       IN  /\ quote' = [quote EXCEPT ![c] = IF q.tag = "Err" THEN @ ELSE q.val]
           /\ pc' = [pc EXCEPT ![c] = IF q.tag = "Err" THEN "done" ELSE "submit"]
           /\ outcome' = [outcome EXCEPT ![c] = IF q.tag = "Err" THEN Err(q.msg) ELSE @]
           /\ returns' = [returns EXCEPT ![c] = IF q.tag = "Err" THEN @ + 1 ELSE @]
    /\ trace' = [trace EXCEPT ![c] = Append(@, "Quote")]
    /\ overlapped' = Overlap(c)
    /\ UNCHANGED <<client, params, vres, sig, opVars>>

\* a submission that may be attempted again after it was made
SwapSubmitRetry(c) ==
    /\ pc[c] = "submit"
    /\ sig' = [sig EXCEPT ![c] = Some(SimulatedSignature)]
    /\ pc' \in {[pc EXCEPT ![c] = "report"], pc}
    /\ trace' = [trace EXCEPT ![c] = Append(@, "Submit")]
    /\ overlapped' = Overlap(c)
    /\ UNCHANGED <<client, params, vres, quote, outcome, returns, opVars>>

\* the simulated submission: it always yields the signature literal
SwapSubmit(c) ==
    /\ pc[c] = "submit"
    /\ sig' = [sig EXCEPT ![c] = Some(SimulatedSignature)]
    /\ pc' = [pc EXCEPT ![c] = "report"]
    /\ trace' = [trace EXCEPT ![c] = Append(@, "Submit")]
    /\ overlapped' = Overlap(c)
    /\ UNCHANGED <<client, params, vres, quote, outcome, returns, opVars>>

\* a report built from one signature slot shared by all calls
SwapReportShared(c) ==
    /\ pc[c] = "report"
    /\ outcome' = [outcome EXCEPT ![c] = Ok(BuildSwapResult(sig[CHOOSE d \in Calls : TRUE]))]
    /\ returns' = [returns EXCEPT ![c] = @ + 1]
    /\ pc' = [pc EXCEPT ![c] = "done"]
    /\ trace' = [trace EXCEPT ![c] = Append(@, "Report")]
    /\ overlapped' = Overlap(c)
    /\ UNCHANGED <<client, params, vres, quote, sig, opVars>>

\* Ok(SwapResult { success: true, signature: Some(..), error: None })
SwapReport(c) ==
    /\ pc[c] = "report"
    /\ outcome' = [outcome EXCEPT ![c] = Ok(BuildSwapResult(sig[c]))]
    /\ returns' = [returns EXCEPT ![c] = @ + 1]
    /\ pc' = [pc EXCEPT ![c] = "done"]
    /\ trace' = [trace EXCEPT ![c] = Append(@, "Report")]
    /\ overlapped' = Overlap(c)
    /\ UNCHANGED <<client, params, vres, quote, sig, opVars>>

SwapStep(c) == SwapValidate(c) \/ SwapQuote(c) \/ SwapSubmit(c) \/ SwapReport(c)

Next ==
    \/ \E c \in Calls, p \in SwapInputs : SwapCall(c, p)
    \/ \E c \in Calls : SwapValidate(c)
    \/ \E c \in Calls : SwapQuote(c)
    \/ \E c \in Calls : SwapSubmit(c)
    \/ \E c \in Calls : SwapReport(c)

Spec == Init /\ [][Next]_vars

\* each call slot is used for one call, and the executor polls every started
\* call until it returns
FairInputs == {p \in SwapInputs : p.amount \in {Zero, Rat(1, 1), NaN}}

FairNext ==
    \/ \E c \in Calls, p \in FairInputs : pc[c] = "idle" /\ SwapCall(c, p)
    \/ \E c \in Calls : SwapStep(c)

\* the client of the tests: network "devnet"
FairInit == Init /\ client.config.network = "devnet"

FairSpec == FairInit /\ [][FairNext]_vars /\ \A c \in Calls : WF_vars(SwapStep(c))

\* ------------------------------------- the client's operations, one at a time
\* dlmm.get_quote(&params).await
OpGetQuote(p) ==
    /\ lastOp' = OpRecord("get_quote", p, GetQuote(client, p))
    /\ \/ memo = NoCall /\ memo' = lastOp' /\ between' = FALSE
       \/ memo' = memo /\ between' = (memo # NoCall)
    /\ UNCHANGED <<client, swapVars>>

\* an execute_swap that writes the slippage it used back into the configuration
OpExecuteSwapMutating(p) ==
    /\ lastOp' = OpRecord("execute_swap", NoParams, ExecuteSwap(client, p))
    /\ between' = (memo # NoCall)
    /\ client' = [config |-> DlmmConfig(client.config.network, Rat(1, 1))]
    /\ UNCHANGED <<swapVars, memo>>

\* dlmm.execute_swap(&params).await
OpExecuteSwap(p) ==
    /\ lastOp' = OpRecord("execute_swap", NoParams, ExecuteSwap(client, p))
    /\ between' = (memo # NoCall)
    /\ UNCHANGED <<client, swapVars, memo>>

\* dlmm.get_pool_stats(pair_address).await
OpGetPoolStats(a) ==
    /\ lastOp' = OpRecord("get_pool_stats", NoParams, GetPoolStats(client, a))
    /\ between' = (memo # NoCall)
    /\ UNCHANGED <<client, swapVars, memo>>

SeqNext ==
    \/ \E p \in ParamsSet : OpGetQuote(p)
    \/ \E p \in SwapInputs : OpExecuteSwap(p)
    \/ \E a \in PairAddresses : OpGetPoolStats(a)

SeqSpec == Init /\ [][SeqNext]_vars

\* ------------------------------------------------------------------ claims
Invalid(p) == ValidateSwapParams(client, p).tag = "Err"
Returned(c) == pc[c] = "done"
Performed(c, step) == \E i \in 1 .. Len(trace[c]) : trace[c][i] = step
Times(c, step) == Cardinality({i \in 1 .. Len(trace[c]) : trace[c][i] = step})
IsPrefix(s, t) == Len(s) <= Len(t) /\ \A i \in 1 .. Len(s) : s[i] = t[i]
FullPath == <<"Validate", "Quote", "Submit", "Report">>
\* the f64 x has the value n/d
RatIs(x, n, d) == ~IsNaN(x) /\ x.num * d = n * x.den

\* C1: an execute_swap call whose params fail validation returns a SwapResult
\* with success = false and error = the validation message.
C1_ValidationFailureIsSwapResult ==
    \A c \in Calls :
        (Returned(c) /\ vres[c].tag = "Err") =>
            /\ outcome[c].tag = "Ok"
            /\ outcome[c].val.success = FALSE
            /\ outcome[c].val.error = Some(vres[c].msg)
            /\ outcome[c].val.signature = None

\* C2: a call whose params fail validation (in particular every amount <= 0)
\* never performs the quote step or the submission step.
C2_InvalidNeverQuotesOrSubmits ==
    \A c \in Calls :
        (pc[c] # "idle" /\ (Invalid(params[c]) \/ FLe(params[c].amount, Zero))) =>
            /\ ~Performed(c, "Quote")
            /\ ~Performed(c, "Submit")
            /\ quote[c] = NoQuote
            /\ sig[c] = None
            /\ pc[c] \in {"validate", "done"}

C2_Witness ==
    \E c \in Calls :
        /\ Returned(c)
        /\ FLe(params[c].amount, Zero)
        /\ params[c].input_token = "SOL"
        /\ params[c].output_token = "USDC"
        /\ trace[c] = <<"Validate">>
        /\ outcome[c].tag = "Err"

\* C3: validate_swap_params succeeds if and only if both tokens are non-empty,
\* amount > 0 and the two tokens differ.
C3_ValidateIff ==
    \A c \in Calls :
        vres[c].tag \in {"Ok", "Err"} =>
            (vres[c].tag = "Ok" <=>
                /\ params[c].input_token # ""
                /\ params[c].output_token # ""
                /\ FGt(params[c].amount, Zero)
                /\ params[c].input_token # params[c].output_token)

\* the lowest-numbered rule of the four that p violates, 0 when it violates none
FirstViolated(p) ==
    IF p.input_token = "" THEN 1
    ELSE IF p.output_token = "" THEN 2
    ELSE IF ~FGt(p.amount, Zero) THEN 3
    ELSE IF p.input_token = p.output_token THEN 4
    ELSE 0

\* C4: the four rules are checked in order and the error returned identifies
\* the lowest-numbered violated rule: params that violate a rule get an error,
\* and two params that get the same error have the same lowest violated rule.
C4_ErrorIdentifiesFirstRule ==
    \A c \in Calls :
        vres[c].tag \in {"Ok", "Err"} =>
            /\ FirstViolated(params[c]) # 0 => vres[c].tag = "Err"
            /\ vres[c].tag = "Err" =>
                   \A q \in SwapInputs :
                       ValidateSwapParams(client, q) = vres[c] =>
                           FirstViolated(q) = FirstViolated(params[c])

\* C4, amended: the validator makes three checks in order and stops at the
\* first that fails: (a) either token empty, (b) amount <= 0, (c) the tokens
\* equal.  The error names the first failing check, whatever later checks would
\* say; rules 1 and 2 share check (a) and its message.
C4_ErrorIdentifiesFirstCheck ==
    \A c \in Calls :
        vres[c].tag \in {"Ok", "Err"} =>
            LET p == params[c]
                tokenMissing == p.input_token = "" \/ p.output_token = ""
                notPositive == FLe(p.amount, Zero)
                sameToken == p.input_token = p.output_token
            IN  /\ tokenMissing =>
                       vres[c] = Err("Input and output tokens are required")
                /\ (~tokenMissing /\ notPositive) =>
                       vres[c] = Err("Amount must be positive")
                /\ (~tokenMissing /\ ~notPositive /\ sameToken) =>
                       vres[c] = Err("Input and output tokens must be different")
                /\ (~tokenMissing /\ ~notPositive /\ ~sameToken) => vres[c].tag = "Ok"

C4_Witness ==
    \E c \in Calls :
        /\ params[c].input_token = "SOL"
        /\ params[c].output_token = "SOL"
        /\ params[c].amount = Zero
        /\ vres[c] = Err("Amount must be positive")

\* C5: for every amount > 0 get_quote succeeds with input_amount = amount,
\* expected_output = amount * 100 (> 0), price_impact = amount * 0.05 / 1_000_000
\* and fee = amount * 0.003, whatever the token pair and the wallet.
C5_QuoteFormula ==
    (lastOp.op = "get_quote" /\ FGt(lastOp.params.amount, Zero)) =>
        LET a == lastOp.params.amount
            r == lastOp.result
        IN  /\ r.tag = "Ok"
            /\ r.val.input_amount = a
            /\ RatIs(r.val.expected_output, a.num * 100, a.den)
            /\ FGt(r.val.expected_output, Zero)
            /\ RatIs(r.val.price_impact, a.num * 5, a.den * 100000000)
            /\ RatIs(r.val.fee, a.num * 3, a.den * 1000)

C5_Witness ==
    /\ lastOp.op = "get_quote"
    /\ lastOp.params.amount = Rat(1, 1)
    /\ lastOp.params.input_token = "SOL"
    /\ lastOp.params.output_token = "USDC"
    /\ lastOp.result.tag = "Ok"
    /\ lastOp.result.val.expected_output = Rat(100, 1)
    /\ lastOp.result.val.fee = Rat(3, 1000)

\* C6: every SwapResult execute_swap has returned carries exactly one of
\* signature and error: the signature when success is true, the error when it
\* is false.
C6_ExactlyOneOfSignatureAndError ==
    \A c \in Calls :
        outcome[c].tag = "Ok" =>
            LET r == outcome[c].val
            IN  /\ Cardinality(r.signature) + Cardinality(r.error) = 1
                /\ r.success => (r.signature # None /\ r.error = None)
                /\ ~r.success => (r.error # None /\ r.signature = None)

C6_Witness ==
    \A c \in Calls :
        /\ Returned(c)
        /\ outcome[c].tag = "Ok"
        /\ outcome[c].val.signature = Some(SimulatedSignature)

\* C8: a get_quote call returns what an earlier get_quote call with the same
\* params returned, whatever operations ran in between, and no operation
\* changes the client.
C8_QuoteRepeatable ==
    /\ [](  (lastOp.op = "get_quote" /\ memo.op = "get_quote"
               /\ lastOp.params = memo.params)
            => lastOp.result = memo.result)
    /\ [][client' = client]_vars

C8_Witness ==
    /\ lastOp.op = "get_quote"
    /\ memo.op = "get_quote"
    /\ between
    /\ lastOp.params = memo.params
    /\ FGt(memo.params.amount, Zero)
    /\ lastOp.result = memo.result

\* C9: under every interleaving of the calls' steps, what a call has computed
\* and returned is what it computes and returns when run alone.
C9_IndependentOfInterleaving ==
    \A c \in Calls :
        /\ Returned(c) => outcome[c] = ExecuteSwap(client, params[c])
        /\ pc[c] \in {"submit", "report"} => Ok(quote[c]) = GetQuote(client, params[c])
        /\ vres[c].tag # "Pending" => vres[c] = ValidateSwapParams(client, params[c])

C9_Witness ==
    /\ \A c \in Calls : Returned(c) /\ overlapped[c]
    /\ outcome["a"].tag = "Ok"
    /\ outcome["b"].tag = "Err"

\* the order of a call's steps, and the count of its submissions and returns
C10_StepOrder ==
    \A c \in Calls :
        /\ vres[c].tag = "Ok" =>
               /\ IsPrefix(trace[c], FullPath)
               /\ Returned(c) => trace[c] = FullPath
        /\ Times(c, "Submit") <= 1
        /\ Performed(c, "Submit") =>
               /\ vres[c].tag = "Ok"
               /\ trace[c][1] = "Validate"
        /\ returns[c] <= 1
        /\ Returned(c) <=> (returns[c] = 1 /\ outcome[c].tag # "Pending")

\* C10: a call whose params pass validation performs Validate, Quote, Submit,
\* Report in that order, submits at most once and only after validation has
\* succeeded, and every started call returns, exactly once.
C10_OrderedSingleSubmitTerminates ==
    /\ []C10_StepOrder
    /\ \A c \in Calls : (pc[c] = "validate") ~> Returned(c)

C10_Witness ==
    \E c \in Calls :
        /\ Returned(c)
        /\ vres[c].tag = "Ok"
        /\ trace[c] = FullPath
        /\ returns[c] = 1

====
